---- MODULE Spec2Model ----
(***************************************************************************)
(* A model of clap-derive-internals (src/clap-derive-internals/src/lib.rs):*)
(* the attribute extraction and lookup helpers, the type classifier, the   *)
(* derive driver, the parts of the code generator that the module          *)
(* documentation of lib.rs lays down, and the subcommand tree builder of   *)
(* the design.  Strings that the code inspects character by character are  *)
(* sequences of one-character strings.                                     *)
(***************************************************************************)
EXTENDS Naturals, Sequences, FiniteSets

VARIABLES
    attrs,        \* &[syn::Attribute] handed to extract_attrs, in declaration order
    attr_source,  \* AttrSource of the call ("none" before extract_attrs ran)
    resolved,     \* the collected iterator of extract_attrs: <<[key, lit]>>
    lookup,       \* the last from_attr_or_env call: [key, env, var, result] or NoLookup
    apc,          \* position of the attribute pipeline
    field,        \* the struct field being compiled: [ty, attrs, parse]
    cur_type,     \* the field's Ty after the custom-parser rule
    convert_type, \* sub_type(field.ty): [some, ty]
    parser,       \* the resolved (Parser, function) of the field
    flags,        \* the takes_value / multiple / required calls emitted for the field
    mpc,          \* position of the field pipeline
    macro,        \* the derive macro invoked: [name, input]
    stages,       \* the stages derive has run, with what each returned
    result,       \* what derive returned
    output,       \* the token stream the macro handed back to the compiler
    dpc,          \* position of the derive call
    schema,       \* the schema items: item |-> [carrier, more, flatten, args]
    stack,        \* the items whose build is under way, outermost first
    built,        \* the argument names of the item whose build returned last
    outcome,      \* "none", "Ok" or the CompileError of the build
    tpc           \* position of the subcommand tree builder

avars == <<attrs, attr_source, resolved, lookup, apc>>

mvars == <<field, cur_type, convert_type, parser, flags, mpc>>

dvars == <<macro, stages, result, output, dpc>>

tvars == <<schema, stack, built, outcome, tpc>>

vars == <<avars, mvars, dvars, tvars>>

(***************************************************************************)
(* Bounds                                                                  *)
(***************************************************************************)
MaxAttrs == 3

MaxTypes == 2

MaxPayload == 3

NumItems == 2

(***************************************************************************)
(* String helpers (std::str)                                               *)
(***************************************************************************)
Whitespace == {" ", "\t", "\n"}

StartsWith(s, pat) ==
    /\ Len(pat) <= Len(s)
    /\ SubSeq(s, 1, Len(pat)) = pat

RECURSIVE trim_left_matches(_, _)
trim_left_matches(s, pat) ==
    IF Len(pat) > 0 /\ StartsWith(s, pat)
    THEN trim_left_matches(SubSeq(s, Len(pat) + 1, Len(s)), pat)
    ELSE s

RECURSIVE trim_left(_)
trim_left(s) ==
    IF s # <<>> /\ Head(s) \in Whitespace THEN trim_left(Tail(s)) ELSE s

RECURSIVE trim_right(_)
trim_right(s) ==
    IF s # <<>> /\ s[Len(s)] \in Whitespace
    THEN trim_right(SubSeq(s, 1, Len(s) - 1))
    ELSE s

trim(s) == trim_right(trim_left(s))

RECURSIVE join(_, _)
join(strs, sep) ==
    IF strs = <<>> THEN <<>>
    ELSE IF Len(strs) = 1 THEN strs[1]
    ELSE strs[1] \o sep \o join(Tail(strs), sep)

(***************************************************************************)
(* syn values                                                              *)
(***************************************************************************)
LitStr(s) == [kind |-> "Str", value |-> s, style |-> "Cooked"]

NameValue(i, l) == [kind |-> "NameValue", ident |-> i, lit |-> l]

Word(i) == [kind |-> "Word", ident |-> i]

List(i, v) == [kind |-> "List", ident |-> i, items |-> v]

Attribute(v, sugared) == [value |-> v, is_sugared_doc |-> sugared]

\* A doc comment as the parser hands it over: the whole comment text.
SugaredDoc(text) == Attribute(NameValue("doc", LitStr(text)), TRUE)

DocValues ==
    { <<"/", "/", "/">>,
      <<"/", "/", "/", " ", "a">>,
      <<"/", "/", "!", "b", " ">>,
      <<"/", "*", "*", " ", "*", "/">> }

ClapLists ==
    { << NameValue("about", LitStr(<<"x">>)) >>,
      << NameValue("help", LitStr(<<"x">>)), NameValue("about", LitStr(<<"y">>)) >>,
      << Word("subcommand"), NameValue("help", LitStr(<<"y">>)) >> }

Attributes ==
    { SugaredDoc(d) : d \in DocValues }
    \cup { Attribute(List("clap", v), FALSE) : v \in ClapLists }
    \cup { Attribute(NameValue("doc", LitStr(<<"a">>)), FALSE),
           Attribute(List("derive", << Word("Debug") >>), FALSE) }

AttrSource == {"Struct", "Field"}

(***************************************************************************)
(* extract_attrs                                                           *)
(***************************************************************************)
RECURSIVE name_values(_)
name_values(v) ==
    IF v = <<>> THEN <<>>
    ELSE (IF Head(v).kind = "NameValue"
          THEN << [key |-> Head(v).ident, lit |-> Head(v).lit] >>
          ELSE <<>>) \o name_values(Tail(v))

RECURSIVE settings_attrs(_)
settings_attrs(as) ==
    IF as = <<>> THEN <<>>
    ELSE (IF Head(as).value.kind = "List" /\ Head(as).value.ident = "clap"
          THEN name_values(Head(as).value.items)
          ELSE <<>>) \o settings_attrs(Tail(as))

doc_text(value) ==
    trim(trim_left_matches(
           trim_left_matches(
             trim_left_matches(
               trim_left_matches(value, <<"/", "/", "!">>),
               <<"/", "/", "/">>),
             <<"/", "*", "!">>),
           <<"/", "*", "*">>))

IsDocComment(attr) ==
    /\ attr.is_sugared_doc
    /\ attr.value.kind = "NameValue"
    /\ attr.value.lit.kind = "Str"
    /\ attr.value.lit.style = "Cooked"
    /\ attr.value.ident = "doc"

RECURSIVE doc_comments(_)
doc_comments(as) ==
    IF as = <<>> THEN <<>>
    ELSE (IF IsDocComment(Head(as))
          THEN << doc_text(Head(as).value.lit.value) >>
          ELSE <<>>) \o doc_comments(Tail(as))

DocKey(src) == IF src = "Struct" THEN "about" ELSE "help"

doc_entry_unless_blank(as, src) ==
    IF join(doc_comments(as), <<" ">>) = <<>> THEN <<>>
    ELSE << [key |-> DocKey(src), lit |-> LitStr(join(doc_comments(as), <<" ">>))] >>

doc_entry(as, src) ==
    IF doc_comments(as) = <<>> THEN <<>>
    ELSE << [key |-> DocKey(src), lit |-> LitStr(join(doc_comments(as), <<" ">>))] >>

extract_attrs_settings_first(as, src) == settings_attrs(as) \o doc_entry(as, src)

extract_attrs(as, src) == doc_entry(as, src) \o settings_attrs(as)

(***************************************************************************)
(* from_attr_or_env                                                        *)
(***************************************************************************)
\* std::env::var: Ok(value), or Err for a variable that is not set or whose
\* value is not valid Unicode.
EnvNames == {"CARGO_PKG_DESCRIPTION"}

EnvResults ==
    { [ok |-> TRUE, value |-> <<"e">>, err |-> "none"],
      [ok |-> FALSE, value |-> <<>>, err |-> "NotPresent"],
      [ok |-> FALSE, value |-> <<>>, err |-> "NotUnicode"] }

unwrap_or(r, d) == IF r.ok THEN r.value ELSE d

Matching(entries, key) == { i \in 1..Len(entries) : entries[i].key = key }

Max(S) == CHOOSE m \in S : \A n \in S : n <= m

from_attr_or_env_first(entries, key, var) ==
    IF Matching(entries, key) # {}
    THEN entries[CHOOSE m \in Matching(entries, key) :
                   \A n \in Matching(entries, key) : m <= n].lit
    ELSE LitStr(unwrap_or(var, <<>>))

from_attr_or_env(entries, key, var) ==
    IF Matching(entries, key) # {}
    THEN entries[Max(Matching(entries, key))].lit
    ELSE LitStr(unwrap_or(var, <<>>))

(***************************************************************************)
(* The attribute pipeline: an item's attributes are declared, extracted    *)
(* once, and then looked up.                                               *)
(***************************************************************************)
NoLookup == [key |-> "none"]

LookupKeys == {"about", "help"}

AStart ==
    /\ attrs = <<>>
    /\ attr_source = "none"
    /\ resolved = <<>>
    /\ lookup = NoLookup
    /\ apc = "declare"

AIdle ==
    /\ attrs = <<>>
    /\ attr_source = "none"
    /\ resolved = <<>>
    /\ lookup = NoLookup
    /\ apc = "idle"

Declare(a) ==
    /\ apc = "declare"
    /\ Len(attrs) < MaxAttrs
    /\ attrs' = Append(attrs, a)
    /\ UNCHANGED <<attr_source, resolved, lookup, apc>>
    /\ UNCHANGED <<mvars, dvars, tvars>>

Extract(src) ==
    /\ apc = "declare"
    /\ attr_source' = src
    /\ resolved' = extract_attrs(attrs, src)
    /\ apc' = "extracted"
    /\ UNCHANGED <<attrs, lookup>>
    /\ UNCHANGED <<mvars, dvars, tvars>>

Lookup(key, env, var) ==
    /\ apc = "extracted"
    /\ lookup' = [key |-> key, env |-> env, var |-> var,
                  result |-> from_attr_or_env(resolved, key, var)]
    /\ apc' = "looked_up"
    /\ UNCHANGED <<attrs, attr_source, resolved>>
    /\ UNCHANGED <<mvars, dvars, tvars>>

ANext ==
    \/ \E a \in Attributes : Declare(a)
    \/ \E src \in AttrSource : Extract(src)
    \/ \E key \in LookupKeys, env \in EnvNames, var \in EnvResults : Lookup(key, env, var)

(***************************************************************************)
(* Ty, ty and sub_type                                                     *)
(***************************************************************************)
Ty == {"Bool", "U64", "Vec", "Option", "Other"}

AngleBracketed(types) == [kind |-> "AngleBracketed", types |-> types]

Parenthesized == [kind |-> "Parenthesized", types |-> <<>>]

PathSegment(i, p) == [ident |-> i, parameters |-> p]

\* syn::Ty::Path(qself, path); every other syn::Ty variant is "NotPath".
TyPath(qself, segs) == [kind |-> "Path", qself |-> qself, segments |-> segs]

NotPath == [kind |-> "NotPath", qself |-> FALSE, segments |-> <<>>]

Plain(i) == TyPath(FALSE, << PathSegment(i, AngleBracketed(<<>>)) >>)

InnerTypes == { Plain("bool"), Plain("String") }

RECURSIVE SeqsUpTo(_, _)
SeqsUpTo(S, n) ==
    IF n = 0 THEN { <<>> }
    ELSE SeqsUpTo(S, n - 1)
         \cup { Append(q, x) : q \in { r \in SeqsUpTo(S, n - 1) : Len(r) = n - 1 }, x \in S }

Idents == {"bool", "u64", "Option", "Vec", "String"}

Parameters == { AngleBracketed(ts) : ts \in SeqsUpTo(InnerTypes, MaxTypes) } \cup { Parenthesized }

Prefixes == { <<>>, << PathSegment("std", AngleBracketed(<<>>)) >> }

Types ==
    { TyPath(q, pre \o << PathSegment(i, p) >>) :
        q \in BOOLEAN, pre \in Prefixes, i \in Idents, p \in Parameters }
    \cup { NotPath }

last(segs) == segs[Len(segs)]

ty_ident(i) ==
    CASE i = "bool" -> "Bool"
      [] i = "u64" -> "U64"
      [] i = "Option" -> "Option"
      [] i = "Vec" -> "Vec"
      [] OTHER -> "Other"

ty_first_segment(t) ==
    IF t.kind = "Path" /\ ~t.qself
    THEN ty_ident(t.segments[1].ident)
    ELSE "Other"

ty(t) ==
    IF t.kind = "Path" /\ ~t.qself
    THEN ty_ident(last(t.segments).ident)
    ELSE "Other"

None == [some |-> FALSE, ty |-> NotPath]

Some(t) == [some |-> TRUE, ty |-> t]

sub_type_last(t) ==
    IF ~(t.kind = "Path" /\ ~t.qself) THEN None
    ELSE IF /\ last(t.segments).parameters.kind = "AngleBracketed"
            /\ last(t.segments).parameters.types # <<>>
         THEN Some(last(t.segments).parameters.types[Len(last(t.segments).parameters.types)])
         ELSE None

sub_type(t) ==
    IF ~(t.kind = "Path" /\ ~t.qself) THEN None
    ELSE IF /\ last(t.segments).parameters.kind = "AngleBracketed"
            /\ last(t.segments).parameters.types # <<>>
         THEN Some(last(t.segments).parameters.types[1])
         ELSE None

(***************************************************************************)
(* Parser and the code generated per field, as the module documentation    *)
(* of lib.rs lays it down.                                                 *)
(***************************************************************************)
Parser == {"FromStr", "TryFromStr", "FromOsStr", "TryFromOsStr"}

NoParse == [kind |-> "none", function |-> "none"]

\* parse(kind) and parse(kind = "function")
ParseDirectives ==
    { [kind |-> k, function |-> f] : k \in Parser, f \in {"none", "parse_hex"} }

FieldAttrs ==
    { <<>>,
      << SugaredDoc(<<"/", "/", "/", " ", "a">>) >>,
      << Attribute(List("clap", << NameValue("default_value", LitStr(<<"4">>)) >>), FALSE) >>,
      << Attribute(List("clap", << NameValue("help", LitStr(<<"x">>)) >>), FALSE),
         Attribute(List("clap", << NameValue("default_value", LitStr(<<"4">>)) >>), FALSE) >> }

\* "When supplying a custom string parser, bool and u64 will not be treated specially"
custom_parser_ty(t, parse) ==
    IF parse # NoParse /\ ty(t) \in {"Bool", "U64"} THEN "Other" ELSE ty(t)

default_function_swapped(kind) ==
    CASE kind = "FromStr" -> "::std::str::FromStr::from_str"
      [] kind = "TryFromStr" -> "::std::convert::From::from"
      [] kind = "FromOsStr" -> "::std::convert::From::from"
      [] kind = "TryFromOsStr" -> "none"

\* the "Default" column of the table of custom string parsers
default_function(kind) ==
    CASE kind = "FromStr" -> "::std::convert::From::from"
      [] kind = "TryFromStr" -> "::std::str::FromStr::from_str"
      [] kind = "FromOsStr" -> "::std::convert::From::from"
      [] kind = "TryFromOsStr" -> "none"

NoParser == [kind |-> "none", function |-> "none", error |-> "none"]

resolve_parser(parse, cur) ==
    IF parse = NoParse
    THEN IF cur \in {"Bool", "U64"} THEN NoParser
         ELSE [kind |-> "TryFromStr", function |-> default_function("TryFromStr"),
               error |-> "none"]
    ELSE IF parse.function # "none"
         THEN [kind |-> parse.kind, function |-> parse.function, error |-> "none"]
         ELSE IF default_function(parse.kind) # "none"
              THEN [kind |-> parse.kind, function |-> default_function(parse.kind),
                    error |-> "none"]
              ELSE [kind |-> parse.kind, function |-> "none",
                    error |-> "MissingParserFunction"]

has_default(fattrs) ==
    \E i \in 1..Len(extract_attrs(fattrs, "Field")) :
        extract_attrs(fattrs, "Field")[i].key = "default_value"

NoFlags == [takes_value |-> "unset", multiple |-> "unset", required |-> "unset"]

arg_calls_required_always(cur, default) ==
    CASE cur = "Bool" -> [takes_value |-> "false", multiple |-> "false", required |-> "unset"]
      [] cur = "U64" -> [takes_value |-> "false", multiple |-> "true", required |-> "unset"]
      [] cur = "Option" -> [takes_value |-> "true", multiple |-> "false", required |-> "unset"]
      [] cur = "Vec" -> [takes_value |-> "true", multiple |-> "true", required |-> "unset"]
      [] cur = "Other" -> [takes_value |-> "true", multiple |-> "false", required |-> "true"]

\* the "Added method call to clap::Arg" column of the table of field types
arg_calls(cur, default) ==
    CASE cur = "Bool" -> [takes_value |-> "false", multiple |-> "false", required |-> "unset"]
      [] cur = "U64" -> [takes_value |-> "false", multiple |-> "true", required |-> "unset"]
      [] cur = "Option" -> [takes_value |-> "true", multiple |-> "false", required |-> "unset"]
      [] cur = "Vec" -> [takes_value |-> "true", multiple |-> "true", required |-> "unset"]
      [] cur = "Other" -> [takes_value |-> "true", multiple |-> "false",
                           required |-> IF default THEN "false" ELSE "true"]

(***************************************************************************)
(* The field pipeline: a field is classified, its parser is resolved, and  *)
(* its clap::Arg calls are emitted.                                        *)
(***************************************************************************)
Fields ==
    { [ty |-> t, attrs |-> a, parse |-> p] :
        t \in Types, a \in FieldAttrs, p \in ParseDirectives \cup { NoParse } }

MStart ==
    /\ field \in Fields
    /\ cur_type = "none"
    /\ convert_type = None
    /\ parser = NoParser
    /\ flags = NoFlags
    /\ mpc = "field"

MIdle ==
    /\ field = [ty |-> NotPath, attrs |-> <<>>, parse |-> NoParse]
    /\ cur_type = "none"
    /\ convert_type = None
    /\ parser = NoParser
    /\ flags = NoFlags
    /\ mpc = "idle"

Classify ==
    /\ mpc = "field"
    /\ cur_type' = custom_parser_ty(field.ty, field.parse)
    /\ convert_type' = sub_type(field.ty)
    /\ mpc' = "classified"
    /\ UNCHANGED <<field, parser, flags>>
    /\ UNCHANGED <<avars, dvars, tvars>>

ResolveParser ==
    /\ mpc = "classified"
    /\ parser' = resolve_parser(field.parse, cur_type)
    /\ mpc' = IF parser'.error = "none" THEN "resolved" ELSE "failed"
    /\ UNCHANGED <<field, cur_type, convert_type, flags>>
    /\ UNCHANGED <<avars, dvars, tvars>>

Emit ==
    /\ mpc = "resolved"
    /\ flags' = arg_calls(cur_type, has_default(field.attrs))
    /\ mpc' = "emitted"
    /\ UNCHANGED <<field, cur_type, convert_type, parser>>
    /\ UNCHANGED <<avars, dvars, tvars>>

MNext ==
    \/ Classify
    \/ ResolveParser
    \/ Emit

(***************************************************************************)
(* derive, derive_arg_enum and clap_app                                    *)
(***************************************************************************)
\* What a stage can return: Ok(value) or Err(value), the values told apart by a
\* number.  A derive input that parses gives its own syntax tree, and generated
\* tokens that lex give their own token stream.
Payloads == 1..MaxPayload

Returns == { [ok |-> b, value |-> v] : b \in BOOLEAN, v \in Payloads }

NoResult == [ok |-> FALSE, kind |-> "none", value |-> 0]

Ok(v) == [ok |-> TRUE, kind |-> "Ok", value |-> v]

Err(kind, v) == [ok |-> FALSE, kind |-> kind, value |-> v]

NoOutput == 0

Macros == {"derive_arg_enum", "clap_app"}

\* `?` after a stage that is not the last: go on with the value, or return the
\* error.
question_mark_ignored(r, kind, next) == [pc |-> next, result |-> NoResult]

question_mark(r, kind, next) ==
    IF r.ok THEN [pc |-> next, result |-> NoResult]
    ELSE [pc |-> "returned", result |-> Err(kind, r.value)]

DStart ==
    /\ macro \in { [name |-> n, input |-> i] : n \in Macros, i \in Payloads }
    /\ stages = <<>>
    /\ result = NoResult
    /\ output = NoOutput
    /\ dpc = "start"

DIdle ==
    /\ macro = [name |-> "none", input |-> 0]
    /\ stages = <<>>
    /\ result = NoResult
    /\ output = NoOutput
    /\ dpc = "idle"

\* syn::parse_derive_input(&input.to_string()).map_err(ErrorKind::ParseError)?
ParseInput(r) ==
    /\ dpc = "start"
    /\ r.ok => r.value = macro.input
    /\ stages' = Append(stages, [stage |-> "parse_derive_input", ok |-> r.ok, value |-> r.value])
    /\ dpc' = question_mark(r, "ParseError", "parsed").pc
    /\ result' = question_mark(r, "ParseError", "parsed").result
    /\ UNCHANGED <<macro, output>>
    /\ UNCHANGED <<avars, mvars, tvars>>

\* impl_fn(&ast)?
Generate(r) ==
    /\ dpc = "parsed"
    /\ stages' = Append(stages, [stage |-> "impl_fn", ok |-> r.ok, value |-> r.value])
    /\ dpc' = question_mark(r, "impl_fn", "generated").pc
    /\ result' = question_mark(r, "impl_fn", "generated").result
    /\ UNCHANGED <<macro, output>>
    /\ UNCHANGED <<avars, mvars, tvars>>

\* generated_output.parse().map_err(ErrorKind::ProcLexError)
LexOutput(r) ==
    /\ dpc = "generated"
    /\ r.ok => r.value = stages[2].value
    /\ stages' = Append(stages, [stage |-> "parse", ok |-> r.ok, value |-> r.value])
    /\ dpc' = "returned"
    /\ result' = IF r.ok THEN Ok(r.value) ELSE Err("ProcLexError", r.value)
    /\ UNCHANGED <<macro, output>>
    /\ UNCHANGED <<avars, mvars, tvars>>

\* derive(input, impl_fn).unwrap()
Unwrap ==
    /\ dpc = "returned"
    /\ dpc' = IF result.ok THEN "done" ELSE "panicked"
    /\ output' = IF result.ok THEN result.value ELSE NoOutput
    /\ UNCHANGED <<macro, stages, result>>
    /\ UNCHANGED <<avars, mvars, tvars>>

DNext ==
    \/ \E r \in Returns : ParseInput(r)
    \/ \E r \in Returns : Generate(r)
    \/ \E r \in Returns : LexOutput(r)
    \/ Unwrap

(***************************************************************************)
(* The subcommand tree builder.  The items are numbered; item 1 is the one *)
(* being compiled.  An item has its own argument names and at most one     *)
(* subcommand carrier that the builder follows (carrier = 0: none); `more` *)
(* says that a second member is marked as a carrier too, and `flatten`     *)
(* that the carrier has the flatten modifier.  The optional modifier only  *)
(* changes what the generated parser does and is left out.                 *)
(***************************************************************************)
Items == 1..NumItems

Root == 1

ArgSets == { {}, {"s"} }

ItemDefs ==
    { [carrier |-> 0, more |-> FALSE, flatten |-> FALSE, args |-> a] : a \in ArgSets }
    \cup { [carrier |-> c, more |-> m, flatten |-> f, args |-> a] :
             c \in Items, m \in BOOLEAN, f \in BOOLEAN, a \in ArgSets }

\* the visited set threaded through the recursion, all but the compiled item
visited_without_root(st) == { st[i] : i \in 2..Len(st) }

\* the visited set threaded through the recursion
visited(st) == { st[i] : i \in 1..Len(st) }

\* the item the next recursive call is for
callee == IF stack = <<>> THEN Root ELSE schema[stack[Len(stack)]].carrier

\* the arguments of an item once its carrier's target is built
merge(item, target_args) ==
    IF schema[item].flatten THEN schema[item].args \cup target_args
    ELSE schema[item].args

TStart ==
    /\ schema \in [Items -> ItemDefs]
    /\ stack = <<>>
    /\ built = {}
    /\ outcome = "none"
    /\ tpc = "call"

TIdle ==
    /\ schema = [i \in Items |-> [carrier |-> 0, more |-> FALSE, flatten |-> FALSE, args |-> {}]]
    /\ stack = <<>>
    /\ built = {}
    /\ outcome = "none"
    /\ tpc = "idle"

Enter ==
    /\ tpc = "call"
    /\ callee \notin visited(stack)
    /\ ~schema[callee].more
    /\ stack' = Append(stack, callee)
    /\ IF schema[callee].carrier = 0
       THEN tpc' = "return" /\ built' = schema[callee].args
       ELSE tpc' = "call" /\ built' = built
    /\ UNCHANGED <<schema, outcome>>
    /\ UNCHANGED <<avars, mvars, dvars>>

FailCyclic ==
    /\ tpc = "call"
    /\ callee \in visited(stack)
    /\ tpc' = "error"
    /\ outcome' = "CyclicSchema"
    /\ UNCHANGED <<schema, stack, built>>
    /\ UNCHANGED <<avars, mvars, dvars>>

FailMultiple ==
    /\ tpc = "call"
    /\ callee \notin visited(stack)
    /\ schema[callee].more
    /\ tpc' = "error"
    /\ outcome' = "MultipleSubcommands"
    /\ UNCHANGED <<schema, stack, built>>
    /\ UNCHANGED <<avars, mvars, dvars>>

Return ==
    /\ tpc = "return"
    /\ Len(stack) > 1
    /\ ~(schema[stack[Len(stack) - 1]].flatten
         /\ schema[stack[Len(stack) - 1]].args \cap built # {})
    /\ built' = merge(stack[Len(stack) - 1], built)
    /\ stack' = SubSeq(stack, 1, Len(stack) - 1)
    /\ UNCHANGED <<schema, outcome, tpc>>
    /\ UNCHANGED <<avars, mvars, dvars>>

FailDuplicate ==
    /\ tpc = "return"
    /\ Len(stack) > 1
    /\ schema[stack[Len(stack) - 1]].flatten
    /\ schema[stack[Len(stack) - 1]].args \cap built # {}
    /\ tpc' = "error"
    /\ outcome' = "DuplicateArgument"
    /\ UNCHANGED <<schema, stack, built>>
    /\ UNCHANGED <<avars, mvars, dvars>>

Finish ==
    /\ tpc = "return"
    /\ Len(stack) = 1
    /\ stack' = <<>>
    /\ tpc' = "done"
    /\ outcome' = "Ok"
    /\ UNCHANGED <<schema, built>>
    /\ UNCHANGED <<avars, mvars, dvars>>

TNext ==
    \/ Enter
    \/ FailCyclic
    \/ FailMultiple
    \/ Return
    \/ FailDuplicate
    \/ Finish

(***************************************************************************)
(* Specifications                                                          *)
(***************************************************************************)
InitAttrs == AStart /\ MIdle /\ DIdle /\ TIdle

InitField == AIdle /\ MStart /\ DIdle /\ TIdle

InitDerive == AIdle /\ MIdle /\ DStart /\ TIdle

InitTree == AIdle /\ MIdle /\ DIdle /\ TStart

SpecAttrs == InitAttrs /\ [][ANext]_vars

SpecField == InitField /\ [][MNext]_vars

SpecDerive == InitDerive /\ [][DNext]_vars

\* The builder is a synchronous recursion: a step that can be taken is taken.
SpecTree == InitTree /\ [][TNext]_vars /\ WF_vars(TNext)

(***************************************************************************)
(* Claims about the attribute pipeline                                     *)
(***************************************************************************)
\* The name = value items of the clap(...) attributes, by declaration position
\* <<attribute, item>>.
ExplicitAt ==
    { p \in (1..Len(attrs)) \X (1..Max({ Len(v) : v \in ClapLists })) :
        /\ attrs[p[1]].value.kind = "List"
        /\ attrs[p[1]].value.ident = "clap"
        /\ p[2] <= Len(attrs[p[1]].value.items)
        /\ attrs[p[1]].value.items[p[2]].kind = "NameValue" }

Before(p, q) == p[1] < q[1] \/ (p[1] = q[1] /\ p[2] < q[2])

Rank(p) == Cardinality({ q \in ExplicitAt : Before(q, p) }) + 1

ItemAt(p) == attrs[p[1]].value.items[p[2]]

ExplicitWithKey(k) == { p \in ExplicitAt : ItemAt(p).ident = k }

DocAt == { i \in 1..Len(attrs) : attrs[i].is_sugared_doc }

Extracted == apc \in {"extracted", "looked_up"}

\* C2: an item with doc comments and an explicit about (struct) / help (field)
\* attribute resolves to the doc entry first, then the explicit entries in
\* declaration order, and looking the key up gives the last explicit value,
\* wherever the doc comments stand among the attributes.
C2_ExplicitOverridesDoc ==
    (Extracted /\ DocAt # {} /\ ExplicitWithKey(DocKey(attr_source)) # {}) =>
        /\ Len(resolved) = Cardinality(ExplicitAt) + 1
        /\ resolved[1].key = DocKey(attr_source)
        /\ \A p \in ExplicitAt :
              resolved[1 + Rank(p)] = [key |-> ItemAt(p).ident, lit |-> ItemAt(p).lit]
        /\ (apc = "looked_up" /\ lookup.key = DocKey(attr_source)) =>
              \E p \in ExplicitWithKey(lookup.key) :
                  /\ \A q \in ExplicitWithKey(lookup.key) : q = p \/ Before(q, p)
                  /\ lookup.result = ItemAt(p).lit

\* A doc comment declared after two explicit attributes of its key, looked up.
C2_Witness ==
    /\ apc = "looked_up"
    /\ lookup.key = DocKey(attr_source)
    /\ Cardinality(ExplicitWithKey(lookup.key)) = 2
    /\ \E i \in DocAt : \A p \in ExplicitWithKey(lookup.key) : p[1] < i
    /\ resolved[1].lit # lookup.result

\* C3: from_attr_or_env returns the value of the last entry with the key; with no
\* such entry the value of the environment variable; with that not set either
\* the empty string.  The environment never overrides an entry.
C3_LastEntryThenEnv ==
    apc = "looked_up" =>
        LET m == { i \in 1..Len(resolved) : resolved[i].key = lookup.key } IN
        /\ m # {} =>
              \E i \in m : (\A j \in m : j <= i) /\ lookup.result = resolved[i].lit
        /\ (m = {} /\ lookup.var.ok) => lookup.result = LitStr(lookup.var.value)
        /\ (m = {} /\ lookup.var.err = "NotPresent") => lookup.result = LitStr(<<>>)

\* Two entries of the key with different values, and the variable set.
C3_Witness ==
    /\ apc = "looked_up"
    /\ lookup.var.ok
    /\ \E i, j \in 1..Len(resolved) :
          /\ i < j
          /\ resolved[i].key = lookup.key
          /\ resolved[j].key = lookup.key
          /\ resolved[i].lit # resolved[j].lit
          /\ lookup.result = resolved[j].lit

\* The doc text of the item: the doc comment lines, stripped and trimmed, joined
\* with single spaces.
DocText == join(doc_comments(attrs), <<" ">>)

\* C10 as claimed: a doc-derived entry is contributed if and only if the doc
\* text is not empty; it is then the one first entry, keyed about (struct) or
\* help (field); an item whose doc comments are all empty contributes none.
C10_DocEntryIffNonEmpty ==
    Extracted =>
        /\ DocText # <<>> =>
              /\ Len(resolved) = Cardinality(ExplicitAt) + 1
              /\ resolved[1] = [key |-> DocKey(attr_source), lit |-> LitStr(DocText)]
        /\ DocText = <<>> => Len(resolved) = Cardinality(ExplicitAt)

\* C10 as amended: a doc-derived entry is contributed if and only if the item
\* has a doc comment, empty or not; it is then the one first entry, keyed about
\* (struct) or help (field), and its value is the doc text, which may be empty.
C10_DocEntryIffDocComment ==
    Extracted =>
        /\ DocAt # {} =>
              /\ Len(resolved) = Cardinality(ExplicitAt) + 1
              /\ resolved[1] = [key |-> DocKey(attr_source), lit |-> LitStr(DocText)]
        /\ DocAt = {} => Len(resolved) = Cardinality(ExplicitAt)

\* An item whose only doc comment is empty, with an explicit attribute: the
\* first entry is the doc-derived one, with the empty string.
C10_Witness ==
    /\ apc = "extracted"
    /\ Cardinality(DocAt) = 1
    /\ ExplicitAt # {}
    /\ DocText = <<>>
    /\ Len(resolved) = Cardinality(ExplicitAt) + 1
    /\ resolved[1].lit.value = <<>>

(***************************************************************************)
(* Claims about the field pipeline                                         *)
(***************************************************************************)
Classified == mpc \in {"classified", "resolved", "emitted", "failed"}

\* The field's type is a path without a qualified self whose last segment is i.
Shaped(i) ==
    /\ field.ty.kind = "Path"
    /\ ~field.ty.qself
    /\ field.ty.segments[Len(field.ty.segments)].ident = i

CustomParser == field.parse # NoParse

\* C1: a field gets the one cardinality of the first rule that matches: bool ->
\* Bool (flag), u64 -> U64 (counter), Option -> Option, Vec -> Vec, anything else
\* -> Other (required); with a custom parser the bool and u64 rules never fire.
C1_FirstMatchingRule ==
    Classified =>
        cur_type =
            IF ~CustomParser /\ Shaped("bool") THEN "Bool"
            ELSE IF ~CustomParser /\ Shaped("u64") THEN "U64"
            ELSE IF Shaped("Option") THEN "Option"
            ELSE IF Shaped("Vec") THEN "Vec"
            ELSE "Other"

\* std::bool with a custom parser is classified Other.
C1_Witness ==
    /\ mpc = "classified"
    /\ CustomParser
    /\ Shaped("bool")
    /\ Len(field.ty.segments) = 2
    /\ cur_type = "Other"

\* The field declares default_value = "..." in a clap(...) attribute.
DeclaresDefault ==
    \E i \in 1..Len(field.attrs) :
        /\ field.attrs[i].value.kind = "List"
        /\ field.attrs[i].value.ident = "clap"
        /\ \E j \in 1..Len(field.attrs[i].value.items) :
              /\ field.attrs[i].value.items[j].kind = "NameValue"
              /\ field.attrs[i].value.items[j].ident = "default_value"

\* C6: the emitted takes_value and multiple calls are fixed by the cardinality,
\* and required(true) is emitted exactly for a required (Other) field without a
\* default value.
C6_FlagsByCardinality ==
    mpc = "emitted" =>
        /\ flags.takes_value = (IF cur_type \in {"Bool", "U64"} THEN "false" ELSE "true")
        /\ flags.multiple = (IF cur_type \in {"U64", "Vec"} THEN "true" ELSE "false")
        /\ (flags.required = "true") <=> (cur_type = "Other" /\ ~DeclaresDefault)

\* A required field with a default value: required(false).
C6_Witness ==
    /\ mpc = "emitted"
    /\ cur_type = "Other"
    /\ DeclaresDefault
    /\ flags.required = "false"

\* The field's type is Option or Vec written with more than one type parameter.
MultiParameterWrapper ==
    /\ Shaped("Option") \/ Shaped("Vec")
    /\ field.ty.segments[Len(field.ty.segments)].parameters.kind = "AngleBracketed"
    /\ Len(field.ty.segments[Len(field.ty.segments)].parameters.types) > 1

\* C7 as claimed: a field whose wrapper type has more than one type parameter is
\* rejected; none of the parameters is taken as the inner type.
C7_MultiParameterRejected ==
    (Classified /\ MultiParameterWrapper) =>
        /\ ~convert_type.some
        /\ mpc \notin {"classified", "resolved", "emitted"}

\* C7 as amended: a field whose wrapper type has more than one type parameter is
\* classified as the wrapper it names, and its first type parameter is taken as
\* the inner type.
C7_FirstParameterTaken ==
    (Classified /\ MultiParameterWrapper) =>
        /\ cur_type = (IF Shaped("Option") THEN "Option" ELSE "Vec")
        /\ convert_type.some
        /\ convert_type.ty = field.ty.segments[Len(field.ty.segments)].parameters.types[1]

\* Vec<String, bool> compiled to the end with String as the inner type.
C7_Witness ==
    /\ mpc = "emitted"
    /\ Shaped("Vec")
    /\ MultiParameterWrapper
    /\ field.ty.segments[Len(field.ty.segments)].parameters.types = << Plain("String"), Plain("bool") >>
    /\ convert_type = Some(Plain("String"))

FunctionOmitted == CustomParser /\ field.parse.function = "none"

ParserResolved == mpc \in {"resolved", "emitted", "failed"}

\* C8 as claimed: with the function name omitted, from_str and try_from_str
\* resolve to their default function, and from_os_str and try_from_os_str fail
\* with MissingParserFunction.
C8_ByteKindsNeedFunction ==
    (ParserResolved /\ FunctionOmitted) =>
        IF field.parse.kind \in {"FromStr", "TryFromStr"}
        THEN parser.error = "none" /\ parser.function # "none"
        ELSE parser.error = "MissingParserFunction"

\* C8 as amended: with the function name omitted, from_str and from_os_str
\* resolve to ::std::convert::From::from, try_from_str to
\* ::std::str::FromStr::from_str, and only try_from_os_str fails with
\* MissingParserFunction.
C8_OnlyTryFromOsStrNeedsFunction ==
    (ParserResolved /\ FunctionOmitted) =>
        /\ parser.kind = field.parse.kind
        /\ field.parse.kind \in {"FromStr", "FromOsStr"} =>
              parser.error = "none" /\ parser.function = "::std::convert::From::from"
        /\ field.parse.kind = "TryFromStr" =>
              parser.error = "none" /\ parser.function = "::std::str::FromStr::from_str"
        /\ field.parse.kind = "TryFromOsStr" =>
              parser.error = "MissingParserFunction" /\ mpc = "failed"

\* parse(from_os_str) resolved to the default function.
C8_Witness ==
    /\ mpc = "resolved"
    /\ FunctionOmitted
    /\ field.parse.kind = "FromOsStr"
    /\ parser.function = "::std::convert::From::from"

(***************************************************************************)
(* Claims about derive                                                     *)
(***************************************************************************)
StageOrder == << "parse_derive_input", "impl_fn", "parse" >>

StageError == << "ParseError", "impl_fn", "ProcLexError" >>

Failed == { i \in 1..Len(stages) : ~stages[i].ok }

\* C5: the stages run in order and stop at the first error, which is what derive
\* returns; a token stream is handed back only when all three stages succeeded,
\* and it is the last stage's.
C5_AllOrNothing ==
    /\ Len(stages) <= 3
    /\ \A i \in 1..Len(stages) : stages[i].stage = StageOrder[i]
    /\ \A i \in Failed : i = Len(stages)
    /\ dpc \in {"returned", "done", "panicked"} =>
          IF Failed = {}
          THEN Len(stages) = 3 /\ result = Ok(stages[3].value)
          ELSE result = Err(StageError[Len(stages)], stages[Len(stages)].value)
    /\ dpc = "panicked" => Failed # {}
    /\ output # NoOutput =>
          /\ dpc = "done"
          /\ Failed = {}
          /\ Len(stages) = 3
          /\ stages[1].value = macro.input
          /\ output = stages[2].value

\* impl_fn failed: the output was not lexed and the macro handed nothing back.
C5_Witness ==
    /\ dpc = "panicked"
    /\ Len(stages) = 2
    /\ ~stages[2].ok
    /\ result.kind = "impl_fn"
    /\ output = NoOutput

(***************************************************************************)
(* Claims about the subcommand tree builder                                *)
(***************************************************************************)
\* The item reached from the compiled item by following k carriers (0: none).
RECURSIVE Follow(_)
Follow(k) ==
    IF k = 0 THEN Root
    ELSE IF Follow(k - 1) = 0 THEN 0
    ELSE schema[Follow(k - 1)].carrier

\* Following the carriers from the compiled item never ends: some carrier refers,
\* directly or through others, to its own item.
SelfReferencing == \A k \in 0..NumItems : Follow(k) # 0

\* Each item has at most one subcommand carrier.
OneCarrierEach == \A i \in Items : ~schema[i].more

Ended == tpc \in {"done", "error"}

C9_SubcommandAndFlattenRejected ==
    (schema[Root].carrier # 0 /\ schema[Root].flatten) => outcome # "Ok"

====
